---- MODULE Spec2Model ----
(***************************************************************************)
(* binary-layout: the define_layout! macro (src/src/macro_define_layout.rs) *)
(* as a state machine.                                                      *)
(*                                                                          *)
(* A layout is an ordered list of typed fields and an endianness.  The      *)
(* macro's @impl_fields arm walks the list with an offset accumulator of    *)
(* type Option<usize>; each step defines one field type whose OFFSET is     *)
(* unwrap_field_size(accumulator) and hands                                 *)
(* option_usize_add(OFFSET, SIZE) to the next step; the empty list defines  *)
(* the layout's SIZE.  The generated View wraps a storage and offers, per   *)
(* field, a read accessor, a write accessor and an extracting accessor, and *)
(* into_storage.                                                            *)
(*                                                                          *)
(* A field declared `name: T as U` expands through the second @impl_fields  *)
(* arm, which does the same accumulator arithmetic as the first with the    *)
(* size of U; only the first arm is modelled.  Offsets stay far below the   *)
(* width of usize under the bounds, so the additions never wrap.            *)
(***************************************************************************)
EXTENDS Integers, Sequences, FiniteSets, TLC

VARIABLES
    fields,       \* the layout's declared field types, in order
    endianness,   \* "BigEndian" or "LittleEndian"
    tail,         \* @impl_fields: the fields not yet expanded
    acc,          \* @impl_fields: $offset_accumulator, an Option<usize>
    OFFSET,       \* OFFSET of every field defined so far
    SIZE,         \* the layout's SIZE constant, once defined
    status,       \* "expanding", "defined", or "rejected" (const evaluation failed)
    buf,          \* the bytes of the caller's buffer
    views,        \* per kind of storage: the number of live Views over the buffer
    result,       \* what the latest call returned to the caller
    lastWritten,  \* per field: the value last written through a view, or NotWritten
    borrowed,     \* the buffer's bytes when the oldest live shared View was created
    given         \* the buffer's bytes as the caller first had them

vars == <<fields, endianness, tail, acc, OFFSET, SIZE, status, buf, views,
          result, lastWritten, borrowed, given>>

layoutVars == <<fields, endianness>>
macroVars == <<tail, acc, OFFSET, SIZE, status>>
viewVars == <<buf, views, result, lastWritten, borrowed, given>>

-----------------------------------------------------------------------------
(* Bounds *)

\* longest field list expanded under SpecResolve
MaxFields == 3
\* longest field list of a layout that views are created over
MaxViewFields == 2
\* longest buffer
MaxBufLen == 4
\* most Views alive at a time
MaxViews == 2

-----------------------------------------------------------------------------
(* Option<usize> *)

None == [some |-> FALSE, val |-> 0]
Some(x) == [some |-> TRUE, val |-> x]

-----------------------------------------------------------------------------
(* Field types *)

IntTypes == {"u8", "i8", "u16", "i16", "u32", "i64"}
\* "slice" is [u8], the open ended byte array
FieldTypes == IntTypes \cup {"slice"}
\* the types whose values the model reads and writes: the model's integers
\* hold 31 bits, so the wider types take part in the expansion only
ViewTypes == {"u8", "u16", "i16", "slice"}

SizeOf(t) ==
    CASE t \in {"u8", "i8"} -> 1
      [] t \in {"u16", "i16"} -> 2
      [] t = "u32" -> 4
      [] t = "i64" -> 8

\* <field as Field>::SIZE
Field_SIZE(t) == IF t = "slice" THEN None ELSE Some(SizeOf(t))

Signed(t) == t \in {"i8", "i16", "i64"}

-----------------------------------------------------------------------------
(* The two const fns of the macro *)

\* what const evaluation yields where unwrap_field_size panics
ConstEvalError == -1

\* a bug: an accumulator of None counts as offset 0
unwrap_field_size_or_zero(opt) == IF opt.some THEN opt.val ELSE 0

unwrap_field_size(opt) == IF opt.some THEN opt.val ELSE ConstEvalError

\* a bug: the offset is left out of the sum
option_usize_add_rhs_only(lhs, rhs) == IF rhs.some THEN Some(rhs.val) ELSE None

\* a bug: a size of None counts as 0
option_usize_add_or_zero(lhs, rhs) == Some(lhs + rhs.val)

\* a bug: the size is left out of the sum
option_usize_add_lhs_only(lhs, rhs) == IF rhs.some THEN Some(lhs) ELSE None

\* a bug: one byte of padding after every field
option_usize_add_padded(lhs, rhs) == IF rhs.some THEN Some(lhs + rhs.val + 1) ELSE None

option_usize_add(lhs, rhs) == IF rhs.some THEN Some(lhs + rhs.val) ELSE None

-----------------------------------------------------------------------------
(* define_layout!: @impl_fields *)

\* @impl_fields with a non-empty field list: define the head field at
\* unwrap_field_size(accumulator) and recurse on the tail
impl_fields_field ==
    /\ status = "expanding"
    /\ tail # <<>>
    /\ LET off == unwrap_field_size(acc)
       IN IF off = ConstEvalError
          THEN /\ status' = "rejected"
               /\ UNCHANGED <<tail, acc, OFFSET, SIZE>>
          ELSE /\ OFFSET' = Append(OFFSET, off)
               /\ acc' = option_usize_add(off, Field_SIZE(Head(tail)))
               /\ tail' = Tail(tail)
               /\ UNCHANGED <<SIZE, status>>
    /\ UNCHANGED <<layoutVars, viewVars>>

\* @impl_fields with the empty field list: pub const SIZE = accumulator
impl_fields_end ==
    /\ status = "expanding"
    /\ tail = <<>>
    /\ SIZE' = acc
    /\ status' = "defined"
    /\ UNCHANGED <<tail, acc, OFFSET>>
    /\ UNCHANGED <<layoutVars, viewVars>>

-----------------------------------------------------------------------------
(* Values and their wire encoding *)

RECURSIVE to_le_bytes(_, _)
\* the n bytes of v's two's complement representation, least significant first
to_le_bytes(v, n) ==
    IF n = 0 THEN <<>> ELSE <<v % 256>> \o to_le_bytes(v \div 256, n - 1)

Reverse(s) == [i \in 1..Len(s) |-> s[Len(s) + 1 - i]]

to_be_bytes(v, n) == Reverse(to_le_bytes(v, n))

RECURSIVE from_le_digits(_, _)
\* the number whose base 256 digits are b, least significant first; the most
\* significant byte of a signed type counts from -128 to 127
from_le_digits(signed, b) ==
    IF Len(b) = 1
    THEN IF signed /\ b[1] >= 128 THEN b[1] - 256 ELSE b[1]
    ELSE b[1] + 256 * from_le_digits(signed, Tail(b))

from_le_bytes(t, b) == from_le_digits(Signed(t), b)

from_be_bytes(t, b) == from_le_bytes(t, Reverse(b))

\* the sample values written to a field of integer type t
Values(t) ==
    CASE t = "u8" -> {7, 200}
      [] t = "i8" -> {-128, 5}
      [] t = "u16" -> {258, 65280}
      [] t = "i16" -> {-2, 4660}
      [] t = "u32" -> {16909060, 2147483647}
      [] t = "i64" -> {-2, 16909060}

\* the byte strings written to an open ended field that holds n bytes: one of
\* the right length, one a byte longer
SliceValues(n) == {[i \in 1..n |-> 90], [i \in 1..(n + 1) |-> 90]}

\* tests::data_region: size bytes of a fixed pseudo random pattern
data_region(size) == [i \in 1..size |-> (i * 89 + 100) % 256]

-----------------------------------------------------------------------------
(* Primitive fields and field views *)

IsSized(f) == Field_SIZE(fields[f]).some

\* the buffer length an access to field f needs
Required(f) == OFFSET[f] + (IF IsSized(f) THEN Field_SIZE(fields[f]).val ELSE 0)

BufferTooShort(required, actual) ==
    [ok |-> FALSE, error |-> "BufferTooShort", required |-> required,
     actual |-> actual]

\* StorageToFieldView::view / StorageIntoFieldView::into_view: the field view of
\* field f over a storage of len bytes, bound to [offset, offset+size), or to
\* [offset, len) for the open ended field
FieldView_new(f, len) ==
    IF len < Required(f)
    THEN BufferTooShort(Required(f), len)
    ELSE [ok |-> TRUE, field |-> f, from |-> OFFSET[f],
          to |-> IF IsSized(f) THEN Required(f) ELSE len]

Bytes(fv, bytes) == SubSeq(bytes, fv.from + 1, fv.to)

\* FieldView::read
FieldView_read(fv, bytes) ==
    LET t == fields[fv.field]
    IN IF t = "slice" THEN Bytes(fv, bytes)
       ELSE IF endianness = "LittleEndian"
            THEN from_le_bytes(t, Bytes(fv, bytes))
            ELSE from_be_bytes(t, Bytes(fv, bytes))

Encode(fv, value) ==
    LET t == fields[fv.field]
    IN IF t = "slice" THEN value
       ELSE IF endianness = "LittleEndian"
            THEN to_le_bytes(value, fv.to - fv.from)
            ELSE to_be_bytes(value, fv.to - fv.from)

\* FieldView::write: the storage after value is written to the view's range
FieldView_write(fv, bytes, value) ==
    [i \in 1..Len(bytes) |->
        IF fv.from < i /\ i <= fv.to THEN Encode(fv, value)[i - fv.from]
        ELSE bytes[i]]

\* whether value fits the field: an open ended field takes exactly the bytes
\* it holds
Fits(fv, value) == fields[fv.field] = "slice" => Len(value) = fv.to - fv.from

-----------------------------------------------------------------------------
(* The generated View *)

NoResult == [op |-> "none"]
NotWritten == <<>>

\* the kinds of storage a View is created over: &[u8], &mut [u8], Vec<u8>
Storages == {"shared", "exclusive", "owned"}

NoViews == [k \in Storages |-> 0]

Live == views["shared"] + views["exclusive"] + views["owned"]

\* the aliasing rule for the storage handed to View::new: any number of shared
\* borrows of the buffer, or one exclusive borrow or owner and nothing else
Borrowable(s) ==
    IF s = "shared"
    THEN views["exclusive"] = 0 /\ views["owned"] = 0
    ELSE Live = 0

\* a bug: View::new refuses a buffer shorter than the layout
View_new_storage_checked(s) ==
    IF SIZE.some /\ Len(buf) < SIZE.val THEN views ELSE [views EXCEPT ![s] = @ + 1]

\* View::new: Self {storage: storage.into()}, one more View over storage s
View_new_storage(s) == [views EXCEPT ![s] = @ + 1]

\* a bug: the write accessors are generated for every storage
CanWrite_any(s) == TRUE

\* impl <S: AsMut<[u8]>> View<S>: the storages that have the write accessors
CanWrite(s) == s \in {"exclusive", "owned"}

\* the bytes of a View's storage (as_ref, as_mut): every View is over buf
Storage(s) == buf

\* a bug: every read accessor is generated for the first field's name
view_field_first(s, f) == FieldView_new(1, Len(Storage(s)))

\* View::$name(): the read accessor of field f
view_field(s, f) == FieldView_new(f, Len(Storage(s)))

\* View::$name_mut(): the write accessor of field f
view_field_mut(s, f) == FieldView_new(f, Len(Storage(s)))

\* View::into_$name(): the extracting accessor of field f
view_into_field(s, f) == FieldView_new(f, Len(Storage(s)))

\* a bug: into_storage returns only the bytes the layout covers
view_into_storage_truncated(s) ==
    [storage |-> s,
     bytes |-> IF SIZE.some /\ SIZE.val < Len(buf)
               THEN SubSeq(buf, 1, SIZE.val) ELSE buf]

\* View::into_storage: self.storage
view_into_storage(s) == [storage |-> s, bytes |-> Storage(s)]

Fields == 1..Len(fields)

\* View::new(storage) for a storage of kind s
View_new(s) ==
    /\ status = "defined"
    /\ Live < MaxViews
    /\ Borrowable(s)
    /\ views' = View_new_storage(s)
    /\ result' = [op |-> "new"]
    /\ UNCHANGED <<buf, lastWritten, borrowed, given>>
    /\ UNCHANGED <<layoutVars, macroVars>>

\* view.$name().read() on a View over a storage of kind s
field_read(s, f) ==
    /\ views[s] > 0
    /\ LET fv == view_field(s, f)
       IN result' = IF fv.ok
                    THEN [op |-> "read", field |-> f, ok |-> TRUE,
                          value |-> FieldView_read(fv, Storage(s))]
                    ELSE [op |-> "read", field |-> f, ok |-> FALSE, error |-> fv]
    /\ UNCHANGED <<buf, views, lastWritten, borrowed, given>>
    /\ UNCHANGED <<layoutVars, macroVars>>

\* the values the caller writes to field f
WriteValues(f) ==
    IF fields[f] = "slice"
    THEN SliceValues(IF Len(buf) >= OFFSET[f] THEN Len(buf) - OFFSET[f] ELSE 0)
    ELSE Values(fields[f])

\* view.$name_mut().write(value) on a View over a storage of kind s
field_write(s, f) ==
    /\ views[s] > 0
    /\ CanWrite(s)
    /\ \E value \in WriteValues(f) :
       LET fv == view_field_mut(s, f)
       IN IF fv.ok /\ Fits(fv, value)
          THEN /\ buf' = FieldView_write(fv, Storage(s), value)
               /\ lastWritten' = [lastWritten EXCEPT ![f] = <<value>>]
               /\ result' = [op |-> "write", field |-> f, ok |-> TRUE,
                             value |-> value]
               /\ borrowed' = IF views["shared"] > 0 THEN borrowed ELSE buf'
          ELSE /\ result' = [op |-> "write", field |-> f, ok |-> FALSE,
                             error |-> IF fv.ok
                                       THEN [ok |-> FALSE, error |-> "LengthMismatch"]
                                       ELSE fv]
               /\ UNCHANGED <<buf, lastWritten, borrowed, given>>
    /\ UNCHANGED <<views, given>>
    /\ UNCHANGED <<layoutVars, macroVars>>

\* view.into_$name(): the View is consumed
into_field(s, f) ==
    /\ views[s] > 0
    /\ result' = [op |-> "into_field", field |-> f,
                  fieldview |-> view_into_field(s, f)]
    /\ views' = [views EXCEPT ![s] = @ - 1]
    /\ UNCHANGED <<buf, lastWritten, borrowed, given>>
    /\ UNCHANGED <<layoutVars, macroVars>>

\* view.into_storage(): the View is consumed
into_storage(s) ==
    /\ views[s] > 0
    /\ result' = [op |-> "into_storage", data |-> view_into_storage(s)]
    /\ views' = [views EXCEPT ![s] = @ - 1]
    /\ UNCHANGED <<buf, lastWritten, borrowed, given>>
    /\ UNCHANGED <<layoutVars, macroVars>>

-----------------------------------------------------------------------------
(* Specifications *)

SeqsUpTo(S, n) == UNION {[1..k -> S] : k \in 0..n}

InitMacro(layouts) ==
    /\ fields \in layouts
    /\ endianness \in {"BigEndian", "LittleEndian"}
    /\ tail = fields
    /\ acc = Some(0)
    /\ OFFSET = <<>>
    /\ SIZE = None
    /\ status = "expanding"

InitView(lengths) ==
    /\ buf \in {data_region(n) : n \in lengths}
    /\ borrowed = buf
    /\ given = buf
    /\ views = NoViews
    /\ result = NoResult
    /\ lastWritten = [i \in 1..Len(fields) |-> NotWritten]

\* layouts of every field type: the macro's expansion alone
InitResolve ==
    /\ InitMacro(SeqsUpTo(FieldTypes, MaxFields))
    /\ InitView({0})

NextResolve == impl_fields_field \/ impl_fields_end

SpecResolve == InitResolve /\ [][NextResolve]_vars

\* layouts of the types whose values are read and written, over a buffer
Init ==
    /\ InitMacro(SeqsUpTo(ViewTypes, MaxViewFields))
    /\ InitView(0..MaxBufLen)

Next ==
    \/ impl_fields_field
    \/ impl_fields_end
    \/ \E s \in Storages : View_new(s)
    \/ \E s \in Storages, f \in Fields : field_read(s, f)
    \/ \E s \in Storages, f \in Fields : field_write(s, f)
    \/ \E s \in Storages, f \in Fields : into_field(s, f)
    \/ \E s \in Storages : into_storage(s)

Spec == Init /\ [][Next]_vars

-----------------------------------------------------------------------------
(* What the claims speak of, stated from the field list alone *)

RECURSIVE SumSizes(_)
\* the sum of the sizes of the field types fs, an open ended one counting 0
SumSizes(fs) ==
    IF fs = <<>> THEN 0 ELSE Field_SIZE(Head(fs)).val + SumSizes(Tail(fs))

RECURSIVE PackedOffset(_)
\* where field i starts when nothing but the fields before it precedes it
PackedOffset(i) ==
    IF i = 1 THEN 0 ELSE PackedOffset(i - 1) + Field_SIZE(fields[i - 1]).val

\* where field i ends in a buffer of len bytes
PackedEnd(i, len) == IF IsSized(i) THEN PackedOffset(i) + SizeOf(fields[i]) ELSE len

AllSized(fs) == \A i \in 1..Len(fs) : fs[i] # "slice"

\* an open ended field that is not the last one
OpenEndedNotLast == \E i \in 1..(Len(fields) - 1) : fields[i] = "slice"

\* whether field f's range lies within the buffer
Within(f) ==
    IF IsSized(f) THEN PackedEnd(f, Len(buf)) <= Len(buf)
    ELSE PackedOffset(f) <= Len(buf)

\* the field view the claims expect of field f: its packed range
PackedView(f) ==
    [ok |-> TRUE, field |-> f, from |-> PackedOffset(f),
     to |-> PackedEnd(f, Len(buf))]

\* byte i lies in no field written so far
Untouched(i) ==
    \A f \in Fields :
        lastWritten[f] # NotWritten =>
            ~(PackedOffset(f) < i /\ i <= PackedEnd(f, Len(buf)))

-----------------------------------------------------------------------------
(* C1: in a layout whose fields all have a fixed size, except possibly the
   last, the first field's offset is 0 and every later field's offset is the
   offset of the field before it plus that field's size; the layout is then
   defined with an offset for every field; u8,u16,u32 has offsets 0,1,3 and
   i8,i64,u16 has offsets 0,1,9. *)
C1_OffsetsArePrefixSums ==
    /\ \A i \in 1..Len(OFFSET) :
          /\ i = 1 => OFFSET[i] = 0
          /\ i > 1 => OFFSET[i] = OFFSET[i - 1] + Field_SIZE(fields[i - 1]).val
    /\ AllSized(SubSeq(fields, 1, Len(fields) - 1)) /\ status # "expanding"
          => status = "defined" /\ Len(OFFSET) = Len(fields)
    /\ status = "defined" /\ fields = <<"u8", "u16", "u32">> => OFFSET = <<0, 1, 3>>
    /\ status = "defined" /\ fields = <<"i8", "i64", "u16">> => OFFSET = <<0, 1, 9>>

C1_Witness ==
    status = "defined" /\ fields = <<"i8", "i64", "u16">> /\ OFFSET = <<0, 1, 9>>

(* C2: the layout's SIZE is Some(the sum of the field sizes) when every field
   has a fixed size, Some(0) for the empty field list, and None exactly when
   the last field is open ended; {u16, i64} has Some(10), {u16, [u8]} None. *)
C2_LayoutSize ==
    status = "defined" =>
        /\ AllSized(fields) => SIZE = Some(SumSizes(fields))
        /\ SIZE = None <=> (fields # <<>> /\ fields[Len(fields)] = "slice")
        /\ fields = <<>> => SIZE = Some(0)
        /\ fields = <<"u16", "i64">> => SIZE = Some(10)
        /\ fields = <<"u16", "slice">> => SIZE = None

C2_Witness ==
    status = "defined" /\ fields = <<"u16", "i64">> /\ SIZE = Some(10)

(* C3: a layout with an open ended field that is not the last one is never
   defined: the expansion stops at the field after the open ended one, where
   the accumulator is None and unwrap_field_size yields no offset; no View
   is ever created over it, no call returns and the buffer stays as given.
   Nothing else is rejected. *)
C3_OpenEndedNotLastRejected ==
    /\ OpenEndedNotLast =>
          /\ status # "defined"
          /\ \A i \in 1..Len(OFFSET) : AllSized(SubSeq(fields, 1, i - 1))
          /\ Live = 0
          /\ result = NoResult
          /\ buf = given
    /\ status = "rejected" =>
          /\ OpenEndedNotLast
          /\ ~acc.some
          /\ tail # <<>>
          /\ fields[Len(OFFSET)] = "slice"

C3_Witness ==
    status = "rejected" /\ fields[1] = "slice" /\ Len(fields) = 2 /\ OFFSET = <<0>>

(* C4: constructing the write accessor of a field of fixed offset and size
   over a buffer of len < offset + size fails with
   BufferTooShort(required = offset + size, actual = len), which the caller
   gets as the call's result; a failed write leaves the buffer as it was. *)
C4_WriteOverShortBufferFails ==
    /\ [](result.op = "write" /\ IsSized(result.field) /\ ~Within(result.field)
            => /\ ~result.ok
               /\ result.error =
                    BufferTooShort(PackedEnd(result.field, Len(buf)), Len(buf))
               /\ lastWritten[result.field] = NotWritten)
    /\ [][result'.op = "write" /\ ~result'.ok
            => buf' = buf /\ lastWritten' = lastWritten]_vars

C4_Witness ==
    /\ result.op = "write"
    /\ ~result.ok
    /\ fields = <<"u8", "u16">>
    /\ result.field = 2
    /\ result.error = BufferTooShort(3, 2)
    /\ buf = given

\* encoding a value in a type's size and decoding it gives the value back
CodecRoundTrip ==
    \A t \in IntTypes : \A v \in Values(t) :
        /\ Len(to_le_bytes(v, SizeOf(t))) = SizeOf(t)
        /\ \A i \in 1..SizeOf(t) : to_le_bytes(v, SizeOf(t))[i] \in 0..255
        /\ from_le_bytes(t, to_le_bytes(v, SizeOf(t))) = v
        /\ from_be_bytes(t, to_be_bytes(v, SizeOf(t))) = v

(* C5: a read of a field through the read accessor returns the value last
   written to it through the write accessor, for either endianness; and for
   every integer type and either byte order, decoding the encoding of a
   value gives the value. *)
C5_WriteThenReadRoundTrip ==
    /\ result.op = "read" /\ result.ok /\ lastWritten[result.field] # NotWritten
          => result.value = lastWritten[result.field][1]
    /\ result = NoResult => CodecRoundTrip

C5_Witness ==
    /\ result.op = "read"
    /\ result.ok
    /\ endianness = "BigEndian"
    /\ fields = <<"u8", "i16">>
    /\ result.field = 2
    /\ lastWritten[2] = <<-2>>
    /\ result.value = -2
    /\ SubSeq(buf, 2, 3) = <<255, 254>>

(* C6: View::new succeeds whatever the buffer's length, also below the
   layout's SIZE; the accessors of a field succeed exactly when the field's
   range lies within the buffer, a read succeeds exactly then, and a write
   fails with BufferTooShort exactly when it does not. *)
C6_ViewNewIsLazy ==
    /\ result.op = "new" => Live > 0
    /\ \A s \in Storages, f \in Fields :
          views[s] > 0 =>
              /\ view_field(s, f).ok <=> Within(f)
              /\ view_field_mut(s, f).ok <=> Within(f)
              /\ view_into_field(s, f).ok <=> Within(f)
    /\ result.op = "read" => (result.ok <=> Within(result.field))
    /\ result.op = "write" =>
          /\ Within(result.field) /\ IsSized(result.field) => result.ok
          /\ ~Within(result.field)
                <=> (~result.ok /\ result.error.error = "BufferTooShort")

C6_Witness ==
    /\ result.op = "read"
    /\ result.ok
    /\ Live > 0
    /\ SIZE.some
    /\ Len(buf) < SIZE.val

(* C7: over a buffer of n >= k bytes, a read of the open ended last field,
   whose offset is k, returns the n - k bytes buffer[k..n) in order; a layout
   {field: u16, tail: [u8]} over 4 bytes returns the 2 bytes from 2 to 4. *)
C7_OpenEndedReadsRest ==
    result.op = "read" /\ fields[result.field] = "slice" /\ Within(result.field)
        => /\ result.ok
           /\ Len(result.value) = Len(buf) - PackedOffset(result.field)
           /\ \A i \in 1..Len(result.value) :
                 result.value[i] = buf[PackedOffset(result.field) + i]

C7_Witness ==
    /\ result.op = "read"
    /\ fields = <<"u16", "slice">>
    /\ result.field = 2
    /\ Len(buf) = 4
    /\ result.value = <<buf[3], buf[4]>>

(* C8: while Views over a shared borrow are alive, any number of them, the
   buffer holds the bytes it held when the first of them was created, and
   every read of a field returns the value of the field in those bytes. *)
C8_SharedViewsReadTheSame ==
    views["shared"] > 0 =>
        /\ buf = borrowed
        /\ result.op = "read" /\ result.ok
              => result.value = FieldView_read(PackedView(result.field), borrowed)

C8_Witness ==
    /\ views["shared"] >= 2
    /\ result.op = "read"
    /\ result.ok
    /\ \E f \in Fields : lastWritten[f] # NotWritten

(* C9: into_storage consumes the View and returns its storage: the bytes
   returned are the buffer's, which the call leaves as they were: as long as
   the buffer given, every byte outside the fields written equal to the
   given one; one View fewer is alive afterwards. *)
C9_IntoStorageReturnsStorage ==
    [][result'.op = "into_storage" /\ views' # views
          => /\ buf' = buf
             /\ result'.data.bytes = buf
             /\ lastWritten' = lastWritten
             /\ Len(result'.data.bytes) = Len(given)
             /\ \A i \in 1..Len(given) :
                   Untouched(i) => result'.data.bytes[i] = given[i]
             /\ views[result'.data.storage] > 0
             /\ views' = [views EXCEPT ![result'.data.storage] = @ - 1]]_vars

C9_Witness ==
    /\ result.op = "into_storage"
    /\ result.data.storage = "owned"
    /\ Live = 0
    /\ SIZE.some
    /\ SIZE.val < Len(buf)
    /\ result.data.bytes = buf
    /\ buf # given

(* C10: the fields are independent: every byte outside the fields written is
   as given; every field within the buffer reads as the value last written
   to it, or else as its value in the given buffer, whatever was written to
   the other fields; and writing two distinct fields of fixed size in either
   order leaves the same buffer (checked on the given buffer and after every
   write, which are all the contents a buffer takes). *)
C10_FieldsAreIndependent ==
    status = "defined" =>
        /\ Len(buf) = Len(given)
        /\ \A i \in 1..Len(buf) : Untouched(i) => buf[i] = given[i]
        /\ \A f \in Fields :
              Within(f) =>
                  FieldView_read(view_field("shared", f), buf)
                    = IF lastWritten[f] # NotWritten THEN lastWritten[f][1]
                      ELSE FieldView_read(PackedView(f), given)
        /\ result.op \in {"none", "write"} =>
              \A a, b \in Fields :
                  a < b /\ IsSized(a) /\ IsSized(b) /\ Within(a) /\ Within(b) =>
                      \A x \in Values(fields[a]), y \in Values(fields[b]) :
                          FieldView_write(view_field_mut("owned", b),
                              FieldView_write(view_field_mut("owned", a), buf, x), y)
                          = FieldView_write(view_field_mut("owned", a),
                              FieldView_write(view_field_mut("owned", b), buf, y), x)

C10_Witness ==
    /\ result.op = "read"
    /\ result.ok
    /\ Len(fields) = 2
    /\ result.field = 2
    /\ lastWritten[1] # NotWritten
    /\ lastWritten[2] = NotWritten
    /\ result.value = FieldView_read(PackedView(2), given)

====
